---------------------------- MODULE Spec2Model ----------------------------
(***************************************************************************)
(* Model of crates/oxc_linter/src/config/mod.rs: the resolution of the     *)
(* active rule set from an ESLint configuration file.                      *)
(*                                                                         *)
(* Strings that the code inspects character by character (rule keys,       *)
(* plugin names, rule names) are sequences of one-character strings.       *)
(* Strings that are only looked up in a table (preset names, severity      *)
(* tokens) are TLA+ strings.                                               *)
(***************************************************************************)
EXTENDS Naturals, Sequences, FiniteSets, TLC

VARIABLES
    catalog,     \* RULES: the rule catalog, in its iteration order
    file,        \* what std::fs::read_to_string / serde_json::from_str yield for `path`
    pc,          \* position of the caller: "start", "resolved", "sorted"
    extends_hm,  \* local of ESLintConfig::new: the HashSet of extended plugin names
    roles_hm,    \* local of ESLintConfig::new: the HashMap of explicit rule entries
    result,      \* Result<ESLintConfig, Report> returned by ESLintConfig::new
    out,         \* Vec<RuleEnum> returned by into_rules
    key,         \* argument of a direct call of parse_rule_name
    ident,       \* its return value
    value,       \* argument of a direct call of resolve_rule_value
    resolved,    \* its return value
    root_json,   \* argument of a direct call of parse_extends
    extends_ret  \* its return value, and the set ESLintConfig::new makes of it

vars == <<catalog, file, pc, extends_hm, roles_hm, result, out,
          key, ident, value, resolved, root_json, extends_ret>>

(***************************************************************************)
(* Bounds of the model.                                                    *)
(***************************************************************************)
\* entries of the `rules` object of a document
MaxRules == 2
\* elements of an `extends` array
MaxExtends == 3
\* elements of a rule value given as an array
MaxArr == 2
\* characters of a rule key that follow its prefix
MaxTail == 3

(***************************************************************************)
(* Strings as character sequences.                                         *)
(***************************************************************************)
s_eslint == <<"e","s","l","i","n","t">>
s_react == <<"r","e","a","c","t">>
s_typescript == <<"t","y","p","e","s","c","r","i","p","t">>
s_unicorn == <<"u","n","i","c","o","r","n">>
s_jest == <<"j","e","s","t">>
s_typescript_eslint == s_typescript \o <<"-">> \o s_eslint
s_no_unused_vars == <<"n","o","-","u","n","u","s","e","d","-","v","a","r","s">>
s_jsx_key == <<"j","s","x","-","k","e","y">>

\* The byte of a character (str's Ord compares bytes).
CharCode(c) ==
    CASE c = "-" -> 45
      [] c = "/" -> 47
      [] c = "@" -> 64
      [] c = "a" -> 97  [] c = "c" -> 99  [] c = "d" -> 100 [] c = "e" -> 101
      [] c = "i" -> 105 [] c = "j" -> 106 [] c = "k" -> 107 [] c = "l" -> 108
      [] c = "n" -> 110 [] c = "o" -> 111 [] c = "p" -> 112 [] c = "r" -> 114
      [] c = "s" -> 115 [] c = "t" -> 116 [] c = "u" -> 117 [] c = "v" -> 118
      [] c = "x" -> 120 [] c = "y" -> 121

\* a < b in the order of str (lexicographic over bytes; a proper prefix is less)
StrLess(a, b) ==
    \E i \in 1..(Len(b)) :
        /\ i <= Len(a) + 1
        /\ \A j \in 1..(i - 1) : a[j] = b[j]
        /\ (i = Len(a) + 1 \/ CharCode(a[i]) < CharCode(b[i]))

StrLeq(a, b) == a = b \/ StrLess(a, b)

(***************************************************************************)
(* serde_json::Value and Option<&Value>.  Every value is a record of the   *)
(* same shape: t the variant, s the payload of a string or the text of a   *)
(* number, bool or object, a the elements of an array.                     *)
(***************************************************************************)
NoneV == [t |-> "none", s |-> "", a |-> <<>>]
Str(s) == [t |-> "string", s |-> s, a |-> <<>>]
Num(s) == [t |-> "number", s |-> s, a |-> <<>>]
Bool(s) == [t |-> "bool", s |-> s, a |-> <<>>]
Null == [t |-> "null", s |-> "null", a |-> <<>>]
Obj(s) == [t |-> "object", s |-> s, a |-> <<>>]
Arr(a) == [t |-> "array", s |-> "", a |-> a]

\* Vec::get / slice::get
Get(v, i) == IF i + 1 <= Len(v) THEN v[i + 1] ELSE NoneV

NoErr == [kind |-> "none", msg |-> "", raw |-> NoneV]
Err(kind, msg, raw) == [kind |-> kind, msg |-> msg, raw |-> raw]

(***************************************************************************)
(* AllowWarnDeny (crate::AllowWarnDeny, outside this file).                *)
(***************************************************************************)
\* AllowWarnDeny::try_from(&str)
SeverityFromStr(s) ==
    CASE s = "off" -> [ok |-> TRUE, sev |-> "Allow", err |-> NoErr]
      [] s = "warn" -> [ok |-> TRUE, sev |-> "Warn", err |-> NoErr]
      [] s = "error" -> [ok |-> TRUE, sev |-> "Deny", err |-> NoErr]
      [] OTHER -> [ok |-> FALSE, sev |-> "",
                   err |-> Err("FailedToParseAllowWarnDeny", "Invalid severity", Str(s))]

\* AllowWarnDeny::try_from(&Value)
SeverityFromValue(v) ==
    IF v.t = "string" THEN SeverityFromStr(v.s)
    ELSE [ok |-> FALSE, sev |-> "",
          err |-> Err("FailedToParseAllowWarnDeny", "Invalid severity", v)]

\* AllowWarnDeny::is_enabled
is_enabled(policy) == policy \in {"Warn", "Deny"}

(***************************************************************************)
(* parse_rule_name                                                         *)
(***************************************************************************)
\* str::split_once('/'): the index of the first '/', 0 when there is none
FirstSlash(name) ==
    IF \E i \in 1..Len(name) : name[i] = "/"
    THEN CHOOSE i \in 1..Len(name) :
            name[i] = "/" /\ \A j \in 1..(i - 1) : name[j] # "/"
    ELSE 0

\* str::trim_start_matches('@'): every leading '@' is removed
RECURSIVE trim_start_matches_at(_)
trim_start_matches_at(s) ==
    IF s # <<>> /\ Head(s) = "@" THEN trim_start_matches_at(Tail(s)) ELSE s

\* a mutant: a key without '/' gets no default category
parse_rule_name_NoDefault(name) ==
    LET i == FirstSlash(name) IN
    IF i = 0 THEN <<<<>>, name>>
    ELSE LET category == trim_start_matches_at(SubSeq(name, 1, i - 1))
         IN <<IF category = s_typescript_eslint THEN s_typescript ELSE category,
              SubSeq(name, i + 1, Len(name))>>

\* a mutant: the key is split on its last '/'
parse_rule_name_LastSlash(name) ==
    LET S == {i \in 1..Len(name) : name[i] = "/"} IN
    IF S = {} THEN <<s_eslint, name>>
    ELSE LET i == CHOOSE m \in S : \A n \in S : n <= m
             category == trim_start_matches_at(SubSeq(name, 1, i - 1))
         IN <<IF category = s_typescript_eslint THEN s_typescript ELSE category,
              SubSeq(name, i + 1, Len(name))>>

parse_rule_name(name) ==
    LET i == FirstSlash(name) IN
    IF i # 0
    THEN LET category0 == trim_start_matches_at(SubSeq(name, 1, i - 1))
             category == IF category0 = s_typescript_eslint
                         THEN s_typescript ELSE category0
         IN <<category, SubSeq(name, i + 1, Len(name))>>
    ELSE <<s_eslint, name>>

(***************************************************************************)
(* resolve_rule_value                                                      *)
(***************************************************************************)
ValueOk(sev, config) == [ok |-> TRUE, sev |-> sev, config |-> config, err |-> NoErr]
ValueErr(e) == [ok |-> FALSE, sev |-> "", config |-> NoneV, err |-> e]

\* a mutant: the second element of the array is not read
resolve_rule_value_NoConfig(v) ==
    IF v.t = "string"
    THEN LET r == SeverityFromStr(v.s) IN
         IF r.ok THEN ValueOk(r.sev, NoneV) ELSE ValueErr(r.err)
    ELSE IF v.t = "array" /\ Get(v.a, 0) # NoneV
    THEN LET r == SeverityFromValue(Get(v.a, 0)) IN
         IF r.ok THEN ValueOk(r.sev, NoneV) ELSE ValueErr(r.err)
    ELSE ValueErr(Err("FailedToParseRuleValueError", "Invalid rule value", v))

resolve_rule_value(v) ==
    IF v.t = "string"
    THEN LET r == SeverityFromStr(v.s) IN
         IF r.ok THEN ValueOk(r.sev, NoneV) ELSE ValueErr(r.err)
    ELSE IF v.t = "array" /\ Get(v.a, 0) # NoneV
    THEN LET r == SeverityFromValue(Get(v.a, 0)) IN
         IF r.ok THEN ValueOk(r.sev, Get(v.a, 1)) ELSE ValueErr(r.err)
    ELSE ValueErr(Err("FailedToParseRuleValueError", "Invalid rule value", v))

(***************************************************************************)
(* EXTENDS_MAP and parse_extends                                           *)
(***************************************************************************)
ExtendsKeys == {"eslint:recommended", "plugin:react/recommended",
                "plugin:@typescript-eslint/recommended",
                "plugin:react-hooks/recommended", "plugin:unicorn/recommended",
                "plugin:jest/recommended"}

EXTENDS_MAP(k) ==
    CASE k = "eslint:recommended" -> s_eslint
      [] k = "plugin:react/recommended" -> s_react
      [] k = "plugin:@typescript-eslint/recommended" -> s_typescript
      [] k = "plugin:react-hooks/recommended" -> s_react
      [] k = "plugin:unicorn/recommended" -> s_unicorn
      [] k = "plugin:jest/recommended" -> s_jest

\* the filter_map over the elements of the array, collected into a Vec
RECURSIVE extends_rule_groups(_)
extends_rule_groups(a) ==
    IF a = <<>> THEN <<>>
    ELSE LET v == Head(a) IN
         (IF v.t = "string" /\ v.s \in ExtendsKeys THEN <<EXTENDS_MAP(v.s)>> ELSE <<>>)
             \o extends_rule_groups(Tail(a))

\* a mutant: a string that is not a key of EXTENDS_MAP is kept as a plugin name
RECURSIVE extends_rule_groups_KeepUnknown(_)
extends_rule_groups_KeepUnknown(a) ==
    IF a = <<>> THEN <<>>
    ELSE LET v == Head(a) IN
         (IF v.t # "string" THEN <<>>
          ELSE IF v.s \in ExtendsKeys THEN <<EXTENDS_MAP(v.s)>> ELSE <<<<"x">>>>)
             \o extends_rule_groups_KeepUnknown(Tail(a))

ExtOk(some, groups) == [ok |-> TRUE, some |-> some, groups |-> groups, err |-> NoErr]
ExtErr(e) == [ok |-> FALSE, some |-> FALSE, groups |-> <<>>, err |-> e]

\* a mutant of parse_extends
parse_extends_KeepUnknown(root) ==
    IF ~root.isObject \/ root.extends = NoneV THEN ExtOk(FALSE, <<>>)
    ELSE IF root.extends.t # "array"
    THEN ExtErr(Err("FailedToParseConfigPropertyError", "extends: Expected an array.", NoneV))
    ELSE ExtOk(TRUE, extends_rule_groups_KeepUnknown(root.extends.a))

\* root_json.get("extends") is None when the root is no object or has no such key
parse_extends(root) ==
    IF ~root.isObject \/ root.extends = NoneV THEN ExtOk(FALSE, <<>>)
    ELSE IF root.extends.t # "array"
    THEN ExtErr(Err("FailedToParseConfigPropertyError", "extends: Expected an array.", NoneV))
    ELSE ExtOk(TRUE, extends_rule_groups(root.extends.a))

Range(f) == {f[i] : i \in DOMAIN f}

\* extends_hm.into_iter().collect::<HashSet<_>>(), and HashSet::new() for Ok(None)
ExtendsSet(r) == IF r.some THEN Range(r.groups) ELSE {}

(***************************************************************************)
(* parse_rules                                                             *)
(***************************************************************************)
RulesOk(v) == [ok |-> TRUE, vec |-> v, err |-> NoErr]
RulesErr(e) == [ok |-> FALSE, vec |-> <<>>, err |-> e]

\* the closure of the map over the entries of the `rules` object
ParseEntry(e) ==
    LET id == parse_rule_name(e.key)
        r == resolve_rule_value(e.value)
    IN [ok |-> r.ok, plugin_name |-> id[1], rule_name |-> id[2],
        sev |-> r.sev, config |-> r.config, err |-> r.err]

\* collect::<Result<Vec<_>, Error>>(): the first Err ends the iteration
RECURSIVE CollectEntries(_)
CollectEntries(entries) ==
    IF entries = <<>> THEN RulesOk(<<>>)
    ELSE LET h == ParseEntry(Head(entries)) IN
         IF ~h.ok THEN RulesErr(h.err)
         ELSE LET rest == CollectEntries(Tail(entries)) IN
              IF rest.ok THEN RulesOk(<<h>> \o rest.vec) ELSE rest

\* a mutant: an entry whose value does not parse is skipped
RECURSIVE CollectEntries_SkipBad(_)
CollectEntries_SkipBad(entries) ==
    IF entries = <<>> THEN RulesOk(<<>>)
    ELSE LET h == ParseEntry(Head(entries))
             rest == CollectEntries_SkipBad(Tail(entries))
         IN IF h.ok THEN RulesOk(<<h>> \o rest.vec) ELSE rest

\* a mutant of parse_rules
parse_rules_SkipBad(root) ==
    IF ~root.isObject THEN RulesOk(<<>>)
    ELSE IF root.rules.t # "object" THEN RulesOk(<<>>)
    ELSE CollectEntries_SkipBad(root.rules.entries)

parse_rules(root) ==
    IF ~root.isObject THEN RulesOk(<<>>)
    ELSE IF root.rules.t # "object" THEN RulesOk(<<>>)
    ELSE CollectEntries(root.rules.entries)

(***************************************************************************)
(* ESLintConfig::new                                                       *)
(***************************************************************************)
EmptyMap == [x \in {} |-> x]

\* a mutant: the first entry of an identifier is kept
RECURSIVE CollectMap_FirstWins(_)
CollectMap_FirstWins(vec) ==
    IF vec = <<>> THEN EmptyMap
    ELSE LET e == Head(vec)
             id == <<e.plugin_name, e.rule_name>>
             m == CollectMap_FirstWins(Tail(vec))
         IN [k \in DOMAIN m \cup {id} |->
                IF k = id THEN [policy |-> e.sev, config |-> e.config] ELSE m[k]]

\* collect::<HashMap<_, _>>(): a later entry of the same key replaces an earlier one
RECURSIVE CollectMap(_)
CollectMap(vec) ==
    IF vec = <<>> THEN EmptyMap
    ELSE LET e == vec[Len(vec)]
             id == <<e.plugin_name, e.rule_name>>
             m == CollectMap(SubSeq(vec, 1, Len(vec) - 1))
         IN [k \in DOMAIN m \cup {id} |->
                IF k = id THEN [policy |-> e.sev, config |-> e.config] ELSE m[k]]

RuleId(rule) == <<rule.plugin_name, rule.name>>

\* the lookup of the rule in roles_hm
Lookup(rule, rhm) ==
    IF RuleId(rule) \in DOMAIN rhm
    THEN [is_explicitly_handled |-> TRUE, policy |-> rhm[RuleId(rule)].policy,
          config |-> rhm[RuleId(rule)].config]
    ELSE [is_explicitly_handled |-> FALSE, policy |-> "Allow", config |-> NoneV]

\* a mutant: a rule of an extended plugin stays included whatever its entry says
Included_IgnoreExplicit(rule, ehm, rhm) ==
    LET in_extends == rule.plugin_name \in ehm
        l == Lookup(rule, rhm)
    IN in_extends \/ is_enabled(l.policy)

\* the condition of the filter_map
Included(rule, ehm, rhm) ==
    LET in_extends == rule.plugin_name \in ehm
        l == Lookup(rule, rhm)
    IN (in_extends /\ ~l.is_explicitly_handled) \/ is_enabled(l.policy)

\* the rule's own check of its configuration (the rules are outside this file)
Rejects(rule, config) == config # NoneV /\ config.t \notin rule.accepts

\* RuleEnum::read_json: the configured rule
read_json(rule, config) ==
    [plugin_name |-> rule.plugin_name, name |-> rule.name, config |-> config]

\* a mutant: a rule whose configuration it rejects is left out
RECURSIVE Filter_DropRejected(_, _, _)
Filter_DropRejected(rules, ehm, rhm) ==
    IF rules = <<>> THEN <<>>
    ELSE LET rule == Head(rules) IN
         (IF Included(rule, ehm, rhm) /\ ~Rejects(rule, Lookup(rule, rhm).config)
          THEN <<read_json(rule, Lookup(rule, rhm).config)>> ELSE <<>>)
             \o Filter_DropRejected(Tail(rules), ehm, rhm)

\* a mutant: every enabled entry of roles_hm adds a rule of its own
RECURSIVE Filter_AddEntries(_, _, _)
Filter_AddEntries(rules, ehm, rhm) ==
    IF rules = <<>>
    THEN LET ids == {k \in DOMAIN rhm : is_enabled(rhm[k].policy)}
             RECURSIVE SeqOf(_)
             SeqOf(S) == IF S = {} THEN <<>>
                         ELSE LET k == CHOOSE x \in S : TRUE
                              IN <<[plugin_name |-> k[1], name |-> k[2],
                                    config |-> rhm[k].config]>> \o SeqOf(S \ {k})
         IN SeqOf(ids)
    ELSE LET rule == Head(rules) IN
         (IF rule.plugin_name \in ehm /\ RuleId(rule) \notin DOMAIN rhm
          THEN <<read_json(rule, NoneV)>> ELSE <<>>)
             \o Filter_AddEntries(Tail(rules), ehm, rhm)

\* RULES.clone().into_iter().filter_map(..).collect::<Vec<_>>()
RECURSIVE Filter(_, _, _)
Filter(rules, ehm, rhm) ==
    IF rules = <<>> THEN <<>>
    ELSE LET rule == Head(rules) IN
         (IF Included(rule, ehm, rhm)
          THEN <<read_json(rule, Lookup(rule, rhm).config)>> ELSE <<>>)
             \o Filter(Tail(rules), ehm, rhm)

NewOk(rules, ehm, rhm) ==
    [ok |-> TRUE, rules |-> rules, err |-> NoErr, extends_hm |-> ehm, roles_hm |-> rhm]
NewErr(e, ehm) ==
    [ok |-> FALSE, rules |-> <<>>, err |-> e, extends_hm |-> ehm, roles_hm |-> EmptyMap]

\* FailedToParseConfigError(vec![Error::new(inner)])
ConfigError(inner, cause) == Err("FailedToParseConfigError", inner, cause)

ESLintConfig_new(f, rules) ==
    IF f.kind = "unreadable" THEN NewErr(ConfigError("FailedToOpenFileError", NoneV), {})
    ELSE IF f.kind = "invalid"
    THEN NewErr(ConfigError("FailedToParseConfigJsonError", NoneV), {})
    ELSE LET e == parse_extends(f.root) IN
         IF ~e.ok THEN NewErr(ConfigError("FailedToParseConfigJsonError", NoneV), {})
         ELSE LET ehm == ExtendsSet(e)
                  r == parse_rules(f.root)
              IN IF ~r.ok THEN NewErr(r.err, ehm)
                 ELSE LET rhm == CollectMap(r.vec)
                      IN NewOk(Filter(rules, ehm, rhm), ehm, rhm)

(***************************************************************************)
(* ESLintConfig::into_rules                                                *)
(***************************************************************************)
IsSortedByName(rs) ==
    \A i \in 1..Len(rs) : \A j \in i..Len(rs) : StrLeq(rs[i].name, rs[j].name)

\* sort_unstable_by_key(RuleEnum::name): the rules in an order of their names;
\* the order of rules of the same name is not specified
SortOutcomes(rs) ==
    {[i \in 1..Len(rs) |-> rs[p[i]]] : p \in
        {q \in Permutations(1..Len(rs)) :
            IsSortedByName([i \in 1..Len(rs) |-> rs[q[i]]])}}

(***************************************************************************)
(* The inputs.                                                             *)
(***************************************************************************)
\* sequences over S of length at most n
RECURSIVE SeqsUpTo(_, _)
SeqsUpTo(S, n) ==
    IF n = 0 THEN {<<>>}
    ELSE LET shorter == SeqsUpTo(S, n - 1) IN
         shorter \cup {Append(q, x) : q \in {r \in shorter : Len(r) = n - 1}, x \in S}

\* RULES: three rules, two of them of the same name
Rules ==
    {[plugin_name |-> s_eslint, name |-> s_no_unused_vars, accepts |-> {"object"}],
     [plugin_name |-> s_typescript, name |-> s_no_unused_vars, accepts |-> {"string"}],
     [plugin_name |-> s_react, name |-> s_jsx_key, accepts |-> {"object"}]}

\* the iteration orders of the catalog
CatalogOrders ==
    {q \in SeqsUpTo(Rules, Cardinality(Rules)) : Range(q) = Rules}

MainKeys ==
    {s_no_unused_vars,
     s_eslint \o <<"/">> \o s_no_unused_vars,
     <<"@">> \o s_typescript_eslint \o <<"/">> \o s_no_unused_vars,
     s_react \o <<"/">> \o s_jsx_key,
     <<"/">> \o s_jsx_key}

MainValues ==
    {Str("off"), Str("error"), Arr(<<Str("warn"), Obj("{opt:1}")>>),
     Num("1"), Str("bogus")}

\* the `rules` objects: entries in iteration order, no key twice
RulesObjects ==
    {q \in SeqsUpTo([key : MainKeys, value : MainValues], MaxRules) :
        \A i, j \in 1..Len(q) : q[i].key = q[j].key => i = j}

MainExtends ==
    {NoneV, Str("eslint:recommended"),
     Arr(<<Str("eslint:recommended")>>),
     Arr(<<Str("plugin:react/recommended"), Num("1")>>),
     Arr(<<Str("eslint:recommended"), Str("plugin:@typescript-eslint/recommended")>>)}

NoRules == [t |-> "none", entries |-> <<>>]
NotAnObject == [isObject |-> FALSE, extends |-> NoneV, rules |-> NoRules]
NoRoot == NotAnObject

Roots ==
    {NotAnObject}
    \cup {[isObject |-> TRUE, extends |-> e, rules |-> r] :
            e \in MainExtends,
            r \in {NoRules, [t |-> "other", entries |-> <<>>]}
                  \cup {[t |-> "object", entries |-> q] : q \in RulesObjects}}

Files ==
    {[kind |-> "unreadable", root |-> NoRoot], [kind |-> "invalid", root |-> NoRoot]}
    \cup {[kind |-> "json", root |-> r] : r \in Roots}

\* keys for parse_rule_name: a prefix followed by at most MaxTail characters
KeyPrefixes == {<<>>, s_eslint, s_typescript_eslint, <<"@">> \o s_typescript_eslint}
NameKeys == {p \o q : p \in KeyPrefixes, q \in SeqsUpTo({"@", "/", "x"}, MaxTail)}

\* values for resolve_rule_value
Tokens == {"off", "warn", "error", "bogus"}
Scalars == {Str(s) : s \in Tokens} \cup {Num("2"), Bool("true"), Null, Obj("{opt:1}")}
RuleValues ==
    Scalars \cup {Arr(a) : a \in SeqsUpTo({Str(s) : s \in Tokens}
                                           \cup {Num("2"), Null, Obj("{opt:1}")}, MaxArr)}

\* documents for parse_extends
ExtendsElements == {Str(k) : k \in ExtendsKeys} \cup {Str("plugin:vue/recommended"), Num("1")}
ExtendsRoots ==
    {NotAnObject}
    \cup {[isObject |-> TRUE, extends |-> e, rules |-> NoRules] :
            e \in {NoneV, Str("eslint:recommended"), Null, Obj("{}")}
                  \cup {Arr(a) : a \in SeqsUpTo(ExtendsElements, MaxExtends)}}

(***************************************************************************)
(* The resolution of one configuration file: ESLintConfig::new, then       *)
(* into_rules on the configuration it returned.                            *)
(***************************************************************************)
NoResult == [ok |-> FALSE, rules |-> <<>>, err |-> NoErr]
NoValue == ValueErr(NoErr)
NoExtends == [ret |-> ExtErr(NoErr), set |-> {}]

Idle ==
    /\ key = <<>> /\ ident = <<>>
    /\ value = NoneV /\ resolved = NoValue
    /\ root_json = NoRoot /\ extends_ret = NoExtends

NotResolving ==
    /\ catalog = <<>> /\ file = [kind |-> "unreadable", root |-> NoRoot]
    /\ extends_hm = {} /\ roles_hm = EmptyMap /\ result = NoResult /\ out = <<>>

Init ==
    /\ catalog \in CatalogOrders
    /\ file \in Files
    /\ pc = "start"
    /\ extends_hm = {} /\ roles_hm = EmptyMap /\ result = NoResult /\ out = <<>>
    /\ Idle

New ==
    /\ pc = "start"
    /\ LET r == ESLintConfig_new(file, catalog) IN
        /\ extends_hm' = r.extends_hm
        /\ roles_hm' = r.roles_hm
        /\ result' = [ok |-> r.ok, rules |-> r.rules, err |-> r.err]
    /\ pc' = "resolved"
    /\ UNCHANGED <<catalog, file, out, key, ident, value, resolved, root_json, extends_ret>>

IntoRules ==
    /\ pc = "resolved"
    /\ result.ok
    /\ out' \in SortOutcomes(result.rules)
    /\ pc' = "sorted"
    /\ UNCHANGED <<catalog, file, extends_hm, roles_hm, result,
                   key, ident, value, resolved, root_json, extends_ret>>

Next == New \/ IntoRules

Spec == Init /\ [][Next]_vars

(***************************************************************************)
(* Direct calls of the helper functions.                                   *)
(***************************************************************************)
InitName ==
    /\ key \in NameKeys /\ ident = <<>>
    /\ value = NoneV /\ resolved = NoValue
    /\ root_json = NoRoot /\ extends_ret = NoExtends
    /\ pc = "start" /\ NotResolving

CallParseRuleName ==
    /\ pc = "start"
    /\ ident' = parse_rule_name(key)
    /\ pc' = "returned"
    /\ UNCHANGED <<catalog, file, extends_hm, roles_hm, result, out,
                   key, value, resolved, root_json, extends_ret>>

NextName == CallParseRuleName

SpecName == InitName /\ [][NextName]_vars

InitValue ==
    /\ value \in RuleValues /\ resolved = NoValue
    /\ key = <<>> /\ ident = <<>>
    /\ root_json = NoRoot /\ extends_ret = NoExtends
    /\ pc = "start" /\ NotResolving

CallResolveRuleValue ==
    /\ pc = "start"
    /\ resolved' = resolve_rule_value(value)
    /\ pc' = "returned"
    /\ UNCHANGED <<catalog, file, extends_hm, roles_hm, result, out,
                   key, ident, value, root_json, extends_ret>>

NextValue == CallResolveRuleValue

SpecValue == InitValue /\ [][NextValue]_vars

InitExtends ==
    /\ root_json \in ExtendsRoots /\ extends_ret = NoExtends
    /\ key = <<>> /\ ident = <<>>
    /\ value = NoneV /\ resolved = NoValue
    /\ pc = "start" /\ NotResolving

\* parse_extends, and what ESLintConfig::new makes of an Ok
CallParseExtends ==
    /\ pc = "start"
    /\ LET r == parse_extends(root_json) IN
        extends_ret' = [ret |-> r, set |-> IF r.ok THEN ExtendsSet(r) ELSE {}]
    /\ pc' = "returned"
    /\ UNCHANGED <<catalog, file, extends_hm, roles_hm, result, out,
                   key, ident, value, resolved, root_json>>

NextExtends == CallParseExtends

SpecExtends == InitExtends /\ [][NextExtends]_vars

(***************************************************************************)
(* What the properties are stated with.                                    *)
(***************************************************************************)
Entries == file.root.rules.entries
Resolved == pc \in {"resolved", "sorted"}
IdOf(r) == <<r.plugin_name, r.name>>
InResult(rule) == \E i \in 1..Len(result.rules) : IdOf(result.rules[i]) = RuleId(rule)
Vocabulary == {"off", "warn", "error"}

\* a value of a `rules` entry that is no severity and no array starting with one
BadValue(v) ==
    /\ ~(v.t = "string" /\ v.s \in Vocabulary)
    /\ ~(v.t = "array" /\ Len(v.a) >= 1 /\ v.a[1].t = "string" /\ v.a[1].s \in Vocabulary)

BadExtends == file.kind = "json" /\ file.root.isObject
              /\ file.root.extends # NoneV /\ file.root.extends.t # "array"
BadRules == file.kind = "json" /\ file.root.isObject /\ file.root.rules.t = "object"
            /\ \E i \in 1..Len(Entries) : BadValue(Entries[i].value)
ParseFails == file.kind \in {"unreadable", "invalid"} \/ BadExtends \/ BadRules

OnlyCatalogOnce(rs) ==
    /\ \A i \in 1..Len(rs) : \E r \in Rules : IdOf(rs[i]) = RuleId(r)
    /\ \A i, j \in 1..Len(rs) : IdOf(rs[i]) = IdOf(rs[j]) => i = j

RejectedRule(r) ==
    /\ Included(r, extends_hm, roles_hm)
    /\ RuleId(r) \in DOMAIN roles_hm
    /\ Rejects(r, roles_hm[RuleId(r)].config)

Reverse(q) == [i \in 1..Len(q) |-> q[Len(q) + 1 - i]]
Reversed(f) ==
    [f EXCEPT !.root.rules.entries = Reverse(f.root.rules.entries)]

(***************************************************************************)
(* C1: a rule of the catalog is in the resolved rule set if and only if    *)
(* its category is extended and the override map has no entry for it, or   *)
(* its entry's severity is warn or error.                                  *)
(***************************************************************************)
C1_Inclusion ==
    (Resolved /\ result.ok) =>
        \A r \in Rules :
            InResult(r) <=>
                \/ r.plugin_name \in extends_hm /\ RuleId(r) \notin DOMAIN roles_hm
                \/ RuleId(r) \in DOMAIN roles_hm
                   /\ roles_hm[RuleId(r)].policy \in {"Warn", "Deny"}

\* an explicit "off" removes a preset-enabled rule, an explicit error adds another
C1_Witness ==
    /\ pc = "resolved" /\ result.ok
    /\ \E r1, r2 \in Rules :
        /\ r1.plugin_name \in extends_hm /\ RuleId(r1) \in DOMAIN roles_hm
        /\ roles_hm[RuleId(r1)].policy = "Allow" /\ ~InResult(r1)
        /\ r2.plugin_name \notin extends_hm /\ RuleId(r2) \in DOMAIN roles_hm
        /\ roles_hm[RuleId(r2)].policy = "Deny" /\ InResult(r2)

(***************************************************************************)
(* C2: the sequence into_rules returns is ordered by rule name and is the  *)
(* same for every iteration order of the catalog, also when two included   *)
(* rules share a name.                                                     *)
(***************************************************************************)
C2_Original ==
    pc = "sorted" =>
        /\ IsSortedByName(out)
        /\ \A c \in CatalogOrders :
            \A o \in SortOutcomes(ESLintConfig_new(file, c).rules) : o = out

(***************************************************************************)
(* C3: when a parsing step fails (file unreadable, invalid JSON, extends   *)
(* no array, a bad rule value or severity), new returns the error of the   *)
(* first failing step and no rule set, and into_rules has nothing to act   *)
(* on.                                                                     *)
(***************************************************************************)
C3_NoPartialResult ==
    (Resolved /\ ParseFails) =>
        /\ ~result.ok /\ result.rules = <<>> /\ out = <<>> /\ pc = "resolved"
        /\ result.err.kind # "none"
        /\ file.kind = "unreadable" => result.err.msg = "FailedToOpenFileError"
        /\ (file.kind = "invalid" \/ BadExtends)
            => result.err.msg = "FailedToParseConfigJsonError"
        /\ (file.kind = "json" /\ ~BadExtends) =>
            LET i == CHOOSE m \in 1..Len(Entries) :
                        /\ BadValue(Entries[m].value)
                        /\ \A n \in 1..(m - 1) : ~BadValue(Entries[n].value)
                v == Entries[i].value
            IN /\ result.err.raw = (IF v.t = "array" /\ Len(v.a) >= 1 THEN v.a[1] ELSE v)
               /\ result.err.kind = (IF v.t = "string" \/ (v.t = "array" /\ Len(v.a) >= 1)
                                     THEN "FailedToParseAllowWarnDeny"
                                     ELSE "FailedToParseRuleValueError")

\* an entry that enables a rule is followed by one that does not parse
C3_Witness ==
    /\ pc = "resolved" /\ ~result.ok /\ file.kind = "json" /\ ~BadExtends
    /\ Len(Entries) = 2
    /\ Entries[1].value = Str("error") /\ Entries[1].key = s_no_unused_vars
    /\ BadValue(Entries[2].value)

(***************************************************************************)
(* C4: when a rule is included and rejects the configuration value given   *)
(* for it, the resolution fails with an error that names the rule.         *)
(***************************************************************************)
C4_Original ==
    (Resolved /\ ~ParseFails /\ \E r \in Rules : RejectedRule(r)) =>
        ~result.ok /\ result.err.kind = "RuleConfigFailure"

\* C4 as amended: new has no failure for a rule's configuration; once the
\* document has parsed it returns Ok, and every included rule is in the rule
\* set, configured by read_json from the value given, rejected or not.
C4_NoConfigFailure ==
    (Resolved /\ ~ParseFails) =>
        /\ result.ok
        /\ \A r \in Rules :
            ((r.plugin_name \in extends_hm /\ RuleId(r) \notin DOMAIN roles_hm)
                => \E i \in 1..Len(result.rules) :
                      result.rules[i] = [plugin_name |-> r.plugin_name, name |-> r.name,
                                         config |-> NoneV])
            /\ ((RuleId(r) \in DOMAIN roles_hm /\ is_enabled(roles_hm[RuleId(r)].policy))
                => \E i \in 1..Len(result.rules) :
                      result.rules[i] = [plugin_name |-> r.plugin_name, name |-> r.name,
                                         config |-> roles_hm[RuleId(r)].config])

\* the typescript rule is enabled with an object, which it rejects
C4_Witness ==
    /\ pc = "resolved" /\ result.ok
    /\ \E r \in Rules : RejectedRule(r) /\ r.plugin_name = s_typescript /\ InResult(r)

(***************************************************************************)
(* C5: every rule of the resolved rule set has an identifier of the        *)
(* catalog, and no identifier is in the rule set twice.                    *)
(***************************************************************************)
C5_CatalogOnly == OnlyCatalogOnce(result.rules) /\ OnlyCatalogOnce(out)

\* two rules are resolved while an enabled entry names a rule the catalog lacks
C5_Witness ==
    /\ pc = "sorted" /\ Len(out) >= 2
    /\ \E k \in DOMAIN roles_hm :
        is_enabled(roles_hm[k].policy) /\ \A r \in Rules : RuleId(r) # k

(***************************************************************************)
(* C6: parse_extends returns no set (the empty set to new) when the        *)
(* document has no `extends`, fails with the property error when `extends` *)
(* is no array, and otherwise returns exactly the categories EXTENDS_MAP   *)
(* gives for the string elements: other elements and unknown strings are   *)
(* dropped, duplicates collapse in the set.                                *)
(***************************************************************************)
C6_ParseExtends ==
    pc = "returned" =>
        LET e == root_json.extends
            r == extends_ret.ret
        IN IF ~root_json.isObject \/ e = NoneV
           THEN r.ok /\ ~r.some /\ extends_ret.set = {}
           ELSE IF e.t # "array"
           THEN ~r.ok /\ r.err.kind = "FailedToParseConfigPropertyError"
           ELSE /\ r.ok /\ r.some
                /\ extends_ret.set =
                      {EXTENDS_MAP(e.a[i].s) :
                          i \in {j \in 1..Len(e.a) :
                                    e.a[j].t = "string" /\ e.a[j].s \in ExtendsKeys}}
                /\ Len(r.groups) =
                      Cardinality({j \in 1..Len(e.a) :
                                      e.a[j].t = "string" /\ e.a[j].s \in ExtendsKeys})

\* an unknown preset beside two presets of the same category
C6_Witness ==
    /\ pc = "returned"
    /\ root_json.extends.t = "array"
    /\ \E i, j, k \in 1..Len(root_json.extends.a) :
        /\ root_json.extends.a[i] = Str("plugin:vue/recommended")
        /\ root_json.extends.a[j] = Str("plugin:react/recommended")
        /\ root_json.extends.a[k] = Str("plugin:react-hooks/recommended")
    /\ extends_ret.set = {s_react}

(***************************************************************************)
(* C7: resolve_rule_value returns the severity of a string and no config;  *)
(* for a non-empty array the severity of element 0 and element 1 if there  *)
(* is one; for every other value the "Invalid rule value" error with the   *)
(* value; a token that is no severity fails with the severity error.       *)
(***************************************************************************)
C7_ResolveRuleValue ==
    pc = "returned" =>
        LET first == IF value.t = "array" /\ Len(value.a) >= 1 THEN value.a[1] ELSE value
            second == IF value.t = "array" /\ Len(value.a) >= 2 THEN value.a[2] ELSE NoneV
        IN IF value.t = "string" \/ (value.t = "array" /\ Len(value.a) >= 1)
           THEN IF SeverityFromValue(first).ok
                THEN /\ resolved.ok
                     /\ resolved.sev = SeverityFromValue(first).sev
                     /\ resolved.config = second
                ELSE /\ ~resolved.ok
                     /\ resolved.err.kind = "FailedToParseAllowWarnDeny"
                     /\ resolved.err.raw = first
           ELSE /\ ~resolved.ok
                /\ resolved.err.kind = "FailedToParseRuleValueError"
                /\ resolved.err.msg = "Invalid rule value"
                /\ resolved.err.raw = value

\* ["error"] yields (Error, None)
C7_Witness ==
    /\ pc = "returned"
    /\ value = Arr(<<Str("error")>>)
    /\ resolved.ok /\ resolved.sev = "Deny" /\ resolved.config = NoneV

(***************************************************************************)
(* C8: parse_rule_name yields ("eslint", key) for a key without '/';       *)
(* otherwise it splits on the first '/', strips the leading '@' of the     *)
(* left part, replaces a left part that is then "typescript-eslint" by     *)
(* "typescript", and returns the right part as it is.                      *)
(***************************************************************************)
C8_ParseRuleName ==
    pc = "returned" =>
        LET slashes == {i \in 1..Len(key) : key[i] = "/"} IN
        IF slashes = {} THEN ident = <<s_eslint, key>>
        ELSE LET i == CHOOSE m \in slashes : \A n \in slashes : m <= n
                 left == SubSeq(key, 1, i - 1)
                 n == Cardinality({m \in 1..Len(left) : \A j \in 1..m : left[j] = "@"})
                 stripped == SubSeq(left, n + 1, Len(left))
             IN /\ ident[2] = SubSeq(key, i + 1, Len(key))
                /\ ident[1] = IF stripped = s_typescript_eslint
                              THEN s_typescript ELSE stripped

\* "@typescript-eslint/x/x": the alias applies and the name keeps its '/'
C8_Witness ==
    /\ pc = "returned"
    /\ Len(key) > 0 /\ key[1] = "@"
    /\ ident[1] = s_typescript
    /\ \E i \in 1..Len(ident[2]) : ident[2][i] = "/"

(***************************************************************************)
(* C9: distinct keys of the `rules` object yield distinct identifiers, so  *)
(* building the override map never overwrites an entry and the resolved    *)
(* rule set does not depend on which of two entries is written last.       *)
(***************************************************************************)
C9_Original ==
    (Resolved /\ result.ok) =>
        /\ Cardinality(DOMAIN roles_hm) = Len(Entries)
        /\ ESLintConfig_new(Reversed(file), catalog).rules = result.rules

\* C9 as amended: keys yield distinct identifiers unless parse_rule_name maps
\* them to the same pair; of such entries the override map keeps the one
\* iterated last, and that entry decides whether the rule is resolved.
C9_LastWriteWins ==
    (Resolved /\ result.ok) =>
        /\ DOMAIN roles_hm = {parse_rule_name(Entries[i].key) : i \in 1..Len(Entries)}
        /\ \A id \in DOMAIN roles_hm :
            LET S == {i \in 1..Len(Entries) : parse_rule_name(Entries[i].key) = id}
                last == CHOOSE m \in S : \A n \in S : n <= m
                v == Entries[last].value
            IN /\ roles_hm[id].policy =
                    SeverityFromValue(IF v.t = "array" THEN v.a[1] ELSE v).sev
               /\ roles_hm[id].config =
                    (IF v.t = "array" /\ Len(v.a) >= 2 THEN v.a[2] ELSE NoneV)
               /\ \A r \in Rules :
                    (RuleId(r) = id /\ r.plugin_name \notin extends_hm) =>
                        (InResult(r) <=> roles_hm[id].policy \in {"Warn", "Deny"})

\* two keys of one identifier: the first enables the rule, the last turns it off
C9_Witness ==
    /\ pc = "resolved" /\ result.ok /\ Len(Entries) = 2
    /\ parse_rule_name(Entries[1].key) = parse_rule_name(Entries[2].key)
    /\ Entries[1].value = Str("error") /\ Entries[2].value = Str("off")
    /\ result.rules = <<>>

(***************************************************************************)
(* C10: the category of every identifier of the override map is a          *)
(* non-empty string, and so is every category of the extends set.          *)
(***************************************************************************)
C10_Original ==
    Resolved =>
        /\ \A id \in DOMAIN roles_hm : id[1] # <<>>
        /\ \A c \in extends_hm : c # <<>>

OnlyAtBeforeSlash(k) ==
    \E m \in 1..Len(k) : k[m] = "/" /\ \A j \in 1..(m - 1) : k[j] = "@"
AfterFirstSlash(k) ==
    LET S == {m \in 1..Len(k) : k[m] = "/"} IN
    IF S = {} THEN k
    ELSE SubSeq(k, (CHOOSE m \in S : \A n \in S : m <= n) + 1, Len(k))

\* C10 as amended: the category of an identifier of the override map is empty
\* exactly when its key has a '/' with nothing or only '@' before the first
\* one; every category of the extends set is a non-empty string.
C10_EmptyCategory ==
    (Resolved /\ result.ok) =>
        /\ \A i \in 1..Len(Entries) :
            IF OnlyAtBeforeSlash(Entries[i].key)
            THEN <<<<>>, AfterFirstSlash(Entries[i].key)>> \in DOMAIN roles_hm
            ELSE \E id \in DOMAIN roles_hm :
                    id[1] # <<>> /\ id[2] = AfterFirstSlash(Entries[i].key)
        /\ \A id \in DOMAIN roles_hm :
            id[1] = <<>> =>
                \E i \in 1..Len(Entries) :
                    /\ OnlyAtBeforeSlash(Entries[i].key)
                    /\ id[2] = AfterFirstSlash(Entries[i].key)
        /\ \A c \in extends_hm : c # <<>>

\* the key "/jsx-key" beside an extended category
C10_Witness ==
    /\ pc = "resolved" /\ result.ok
    /\ <<<<>>, s_jsx_key>> \in DOMAIN roles_hm
    /\ extends_hm # {}

=============================================================================
